---- MODULE Spec2Model ----
(***************************************************************************)
(* Model of the three utilities of prompt-alchemy:                         *)
(*   test-mcp.py                      the JSON-RPC probe (Spec)            *)
(*   scripts/extract-mermaid-diagrams.py  the diagram extractor            *)
(*                                        (SpecExtractor)                  *)
(*   qdrant-examples.py               the vector-store client (SpecClient) *)
(***************************************************************************)
EXTENDS Integers, Sequences, FiniteSets, TLC

\* ------------------------------------------------------------------------
\* Bounds
\* ------------------------------------------------------------------------
\* lines send_mcp_request may discard in one exchange before the model stops
\* offering it more discardable lines
MaxSkip == 2
\* lines of a markdown document
MaxLines == 6

VARIABLES
    \* ---- test-mcp.py ----
    pc,           \* position in test_mcp_server
    io,           \* position in send_mcp_request: "idle", "call", "read", "ret"
    spawned,      \* subprocess.Popen returned, `process` is bound
    sent,         \* requests handed to send_mcp_request ("Sending: ...")
    written,      \* requests written to the subprocess's stdin
    inFlight,     \* ids written whose send_mcp_request has not returned
    readLog,      \* outcomes of readline() in the current send_mcp_request
    response,     \* the local variable `response`
    initResp,     \* what the initialize exchange returned
    listResp,     \* what the tools/list exchange returned
    callResp,     \* what the tools/call exchange returned
    handled,      \* exchanges whose response has been examined
    report,       \* printed verdicts: step -> "none" | "ok" | "fail"
    toolName,     \* the local variable `tool_name`
    raised,       \* the `except Exception` block of test_mcp_server ran
    completed,    \* "=== MCP Server Test Complete ===" was printed
    teardown,     \* record of what the finally block did
    \* ---- extract-mermaid-diagrams.py ----
    xpc,          \* position in main / extract_mermaid_diagrams
    argv,         \* command line arguments after the program name
    inputKind,    \* what the input path is: "absent", "file", "dir"
    docLines,     \* the lines of the input file
    trailingNL,   \* the input file ends with a newline
    outDirMade,   \* os.makedirs(output_dir) was called
    diagrams,     \* the list re.findall returned
    diagramFiles, \* the list diagram_files
    outFiles,     \* files written: set of [base, idx, content]
    exitCode,     \* process exit status, -1 while running
    printed,      \* what main printed: "none", "usage", "error", "summary"
    \* ---- qdrant-examples.py ----
    cOp,          \* the QdrantClient operation last called
    cNet,         \* whether the HTTP request of that call raised
    cStatus,      \* status code of the response, 0 when there is none
    cBody,        \* body of the response
    cRet          \* what the call returned (or that it raised)

probeVars == <<pc, io, spawned, sent, written, inFlight, readLog, response,
               initResp, listResp, callResp, handled, report, toolName,
               raised, completed, teardown>>
extractVars == <<xpc, argv, inputKind, docLines, trailingNL, outDirMade,
                 diagrams, diagramFiles, outFiles, exitCode, printed>>
clientVars == <<cOp, cNet, cStatus, cBody, cRet>>
vars == <<probeVars, extractVars, clientVars>>

\* ------------------------------------------------------------------------
\* test-mcp.py: values
\* ------------------------------------------------------------------------
ToolNames == {"t1", "t2"}
ToolLists == {<<>>, <<"t1">>, <<"t2", "t1">>}

\* Python values a response can be.  t: "none" (None), "falsy" (0, "", [],
\* false), "truthy" (a non-empty list, a number, a string), "obj" (a dict).
\* For a dict, res is its `result` member: "absent", "null" (null, 0, false),
\* "empty" ({}), "scalar" (a truthy value that is no dict), "map" (a
\* non-empty dict); tools is result["tools"] where there is one.
NoneVal == [t |-> "none", id |-> 0, res |-> "absent", hasTools |-> FALSE, tools |-> <<>>]
FalsyVal == [t |-> "falsy", id |-> 0, res |-> "absent", hasTools |-> FALSE, tools |-> <<>>]
TruthyVal == [t |-> "truthy", id |-> 0, res |-> "absent", hasTools |-> FALSE, tools |-> <<>>]

ObjVals ==
    { [t |-> "obj", id |-> i, res |-> r, hasTools |-> FALSE, tools |-> <<>>] :
        i \in 1..3, r \in {"absent", "null", "empty", "scalar", "map"} }
    \cup
    { [t |-> "obj", id |-> i, res |-> "map", hasTools |-> TRUE, tools |-> ts] :
        i \in 1..3, ts \in ToolLists }

JsonVals == {NoneVal, FalsyVal, TruthyVal} \cup ObjVals

\* What process.stdout.readline() can give: '' at end of file, a line, or an
\* exception.  A line is blank, starts with 'time=', is other text that is
\* no JSON, or is the text of a JSON value (v).
EofLine == [kind |-> "eof", v |-> NoneVal]
ErrRead == [kind |-> "error", v |-> NoneVal]
NoiseLines == { [kind |-> k, v |-> NoneVal] : k \in {"blank", "log", "text"} }
JsonLines == { [kind |-> "json", v |-> v] : v \in JsonVals }
ReadOutcomes == {EofLine, ErrRead} \cup NoiseLines \cup JsonLines

\* bool(v)
Truthy(v) ==
    v.t \in {"truthy", "obj"}

\* v has a .get method
IsMapping(v) ==
    v.t = "obj"

\* bool(v.get('result')) for a dict v
ResultTruthy(v) ==
    v.res \in {"scalar", "map"}

\* v.get('result') has a .get method, for a dict v whose result is truthy
ResultIsMapping(v) ==
    v.res = "map"

\* response['result'].get('tools', [])
ToolsOf(v) ==
    IF v.hasTools THEN v.tools ELSE <<>>

\* json.loads(line) for a line that is the text of a JSON value
JsonLoads(line) ==
    line.v

AtEof_StripFirst(line) ==
    line.kind \in {"eof", "blank"}

\* `if not line`: readline() returned ''
AtEof(line) ==
    line.kind = "eof"

Discards_NonObjects(line) ==
    \/ line.kind \in {"blank", "log", "text"}
    \/ line.kind = "json" /\ line.v.t # "obj"

\* the line is passed over: empty after strip(), starts with 'time=', or
\* json.loads raises JSONDecodeError
Discards(line) ==
    \/ line.kind = "blank"
    \/ line.kind = "log"
    \/ line.kind = "text"

StepId_Reused(step) ==
    CASE step = "init" -> 1
      [] step = "list" -> 2
      [] step = "call" -> 2

\* the "id" member of the request of each step
StepId(step) ==
    CASE step = "init" -> 1
      [] step = "list" -> 2
      [] step = "call" -> 3

StepMethod(step) ==
    CASE step = "init" -> "initialize"
      [] step = "list" -> "tools/list"
      [] step = "call" -> "tools/call"

FirstTool_Last(tools) ==
    tools[Len(tools)]

\* tools[0].get('name')
FirstTool(tools) ==
    tools[1]

\* the request dict of each step; params carries the tool name and the
\* (empty) arguments for tools/call
Request(step, name) ==
    [id |-> StepId(step), method |-> StepMethod(step),
     name |-> IF step = "call" THEN name ELSE "",
     arguments |-> {}]

NoTeardown ==
    [terminate |-> "none", wait |-> "none", kill |-> "none", escaped |-> FALSE]

NoReport == [s \in {"init", "list", "call"} |-> "none"]

ProbeInit ==
    /\ pc = "spawn"
    /\ io = "idle"
    /\ spawned = FALSE
    /\ sent = <<>>
    /\ written = <<>>
    /\ inFlight = {}
    /\ readLog = <<>>
    /\ response = NoneVal
    /\ initResp = NoneVal
    /\ listResp = NoneVal
    /\ callResp = NoneVal
    /\ handled = {}
    /\ report = NoReport
    /\ toolName = ""
    /\ raised = FALSE
    /\ completed = FALSE
    /\ teardown = NoTeardown

ProbeIdle ==
    /\ pc = "off"
    /\ io = "idle"
    /\ spawned = FALSE
    /\ sent = <<>>
    /\ written = <<>>
    /\ inFlight = {}
    /\ readLog = <<>>
    /\ response = NoneVal
    /\ initResp = NoneVal
    /\ listResp = NoneVal
    /\ callResp = NoneVal
    /\ handled = {}
    /\ report = NoReport
    /\ toolName = ""
    /\ raised = FALSE
    /\ completed = FALSE
    /\ teardown = NoTeardown

\* ------------------------------------------------------------------------
\* test-mcp.py: send_mcp_request
\* ------------------------------------------------------------------------
\* subprocess.Popen(...) and the settle delay; Popen may raise
Spawn ==
    /\ pc = "spawn"
    /\ \E ok \in BOOLEAN :
         IF ok
         THEN /\ spawned' = TRUE
              /\ pc' = "init"
              /\ io' = "call"
              /\ UNCHANGED raised
         ELSE /\ pc' = "finally"
              /\ raised' = TRUE
              /\ UNCHANGED <<spawned, io>>
    /\ UNCHANGED <<sent, written, inFlight, readLog, response, initResp, listResp,
                   callResp, handled, report, toolName, completed, teardown>>
    /\ UNCHANGED <<extractVars, clientVars>>

\* entry of send_mcp_request: print "Sending: ...", then
\* process.stdin.write(request_json); flush().  An exception is caught in
\* send_mcp_request, which then returns None.
WriteRequest ==
    /\ pc \in {"init", "list", "call"}
    /\ io = "call"
    /\ sent' = Append(sent, Request(pc, toolName))
    /\ \E ok \in BOOLEAN :
         IF ok
         THEN /\ written' = Append(written, Request(pc, toolName))
              /\ inFlight' = inFlight \cup {StepId(pc)}
              /\ io' = "read"
              /\ readLog' = <<>>
              /\ UNCHANGED response
         ELSE /\ response' = NoneVal
              /\ io' = "ret"
              /\ readLog' = <<>>
              /\ UNCHANGED <<written, inFlight>>
    /\ UNCHANGED <<pc, spawned, initResp, listResp, callResp, handled,
                   report, toolName, raised, completed, teardown>>
    /\ UNCHANGED <<extractVars, clientVars>>

\* one turn of the `while True` loop: readline() and what is done with it.
\* The action is enabled only when the subprocess has produced a line, closed
\* the stream, or the read fails; otherwise readline() blocks.
ReadLine ==
    /\ pc \in {"init", "list", "call"}
    /\ io = "read"
    /\ \E line \in ReadOutcomes :
         /\ Discards(line) => Len(readLog) < MaxSkip
         /\ readLog' = Append(readLog, line)
         /\ IF line.kind = "error" \/ AtEof(line)
            THEN /\ response' = NoneVal
                 /\ io' = "ret"
                 /\ inFlight' = inFlight \ {StepId(pc)}
            ELSE IF Discards(line)
            THEN UNCHANGED <<response, io, inFlight>>
            ELSE /\ response' = JsonLoads(line)
                 /\ io' = "ret"
                 /\ inFlight' = inFlight \ {StepId(pc)}
    /\ UNCHANGED <<pc, spawned, sent, written, initResp, listResp, callResp,
                   handled, report, toolName, raised, completed, teardown>>
    /\ UNCHANGED <<extractVars, clientVars>>

\* ------------------------------------------------------------------------
\* test-mcp.py: test_mcp_server
\* ------------------------------------------------------------------------
\* `response and response.get('result')` raises AttributeError when the
\* response is truthy and no dict
CondRaises(v) ==
    Truthy(v) /\ ~IsMapping(v)

\* the value of `response and response.get('result')` as a condition
Cond(v) ==
    Truthy(v) /\ IsMapping(v) /\ ResultTruthy(v)

\* send_mcp_request is entered at the three exchange positions only
IoAt(p) ==
    IF p \in {"init", "list", "call"} THEN "call" ELSE "idle"

InitFailGoto_NoReturn ==
    "list"

\* line 94: `return` in the else branch leaves the try block for the finally
\* block
InitFailGoto ==
    "finally"

\* lines 88-94: the verdict on the initialize response
AfterInitialize ==
    /\ pc = "init"
    /\ io = "ret"
    /\ initResp' = response
    /\ handled' = handled \cup {"init"}
    /\ IF CondRaises(response)
       THEN /\ raised' = TRUE
            /\ pc' = "finally"
            /\ io' = "idle"
            /\ UNCHANGED report
       ELSE IF Cond(response)
       THEN /\ report' = [report EXCEPT !["init"] = "ok"]
            /\ IF ResultIsMapping(response)
               THEN /\ pc' = "list"
                    /\ io' = "call"
                    /\ UNCHANGED raised
               ELSE /\ raised' = TRUE
                    /\ pc' = "finally"
                    /\ io' = "idle"
       ELSE /\ report' = [report EXCEPT !["init"] = "fail"]
            /\ pc' = InitFailGoto
            /\ io' = IoAt(InitFailGoto)
            /\ UNCHANGED raised
    /\ UNCHANGED <<spawned, sent, written, inFlight, readLog, response,
                   listResp, callResp, toolName, completed, teardown>>
    /\ UNCHANGED <<extractVars, clientVars>>

\* lines 106-130 and, when no tool is called, line 143
AfterToolsList ==
    /\ pc = "list"
    /\ io = "ret"
    /\ listResp' = response
    /\ handled' = handled \cup {"list"}
    /\ IF CondRaises(response)
       THEN /\ raised' = TRUE
            /\ pc' = "finally"
            /\ io' = "idle"
            /\ UNCHANGED <<report, toolName, completed>>
       ELSE IF Cond(response)
       THEN IF ~ResultIsMapping(response)
            THEN /\ raised' = TRUE
                 /\ pc' = "finally"
                 /\ io' = "idle"
                 /\ UNCHANGED <<report, toolName, completed>>
            ELSE /\ report' = [report EXCEPT !["list"] = "ok"]
                 /\ UNCHANGED raised
                 /\ IF ToolsOf(response) # <<>>
                    THEN /\ toolName' = FirstTool(ToolsOf(response))
                         /\ pc' = "call"
                         /\ io' = "call"
                         /\ UNCHANGED completed
                    ELSE /\ completed' = TRUE
                         /\ pc' = "finally"
                         /\ io' = "idle"
                         /\ UNCHANGED toolName
       ELSE /\ report' = [report EXCEPT !["list"] = "fail"]
            /\ completed' = TRUE
            /\ pc' = "finally"
            /\ io' = "idle"
            /\ UNCHANGED <<raised, toolName>>
    /\ UNCHANGED <<spawned, sent, written, inFlight, readLog, response,
                   initResp, callResp, teardown>>
    /\ UNCHANGED <<extractVars, clientVars>>

\* lines 133-143
AfterToolsCall ==
    /\ pc = "call"
    /\ io = "ret"
    /\ callResp' = response
    /\ handled' = handled \cup {"call"}
    /\ pc' = "finally"
    /\ io' = "idle"
    /\ IF CondRaises(response)
       THEN /\ raised' = TRUE
            /\ UNCHANGED <<report, completed>>
       ELSE IF Cond(response)
       THEN /\ report' = [report EXCEPT !["call"] = "ok"]
            /\ IF ResultIsMapping(response)
               THEN /\ completed' = TRUE
                    /\ UNCHANGED raised
               ELSE /\ raised' = TRUE
                    /\ UNCHANGED completed
       ELSE /\ report' = [report EXCEPT !["call"] = "fail"]
            /\ completed' = TRUE
            /\ UNCHANGED raised
    /\ UNCHANGED <<spawned, sent, written, inFlight, readLog, response,
                   initResp, listResp, toolName, teardown>>
    /\ UNCHANGED <<extractVars, clientVars>>

\* where the finally block goes after process.terminate(): the bounded wait
\* when it returned, the handler of the bare except when it raised
AfterTerminate(outcome) ==
    IF outcome = "ok" THEN "wait" ELSE "kill"

AfterWait_NoEscalation(outcome) ==
    IF outcome = "raised" THEN "kill" ELSE "done"

\* where the finally block goes after process.wait(timeout=5)
AfterWait(outcome) ==
    IF outcome = "exited" THEN "done" ELSE "kill"

\* whether an exception of process.kill() leaves the finally block: the
\* inner bare except passes
KillEscapes(outcome) ==
    FALSE

\* line 151.  When Popen raised, `process` is unbound and the name lookup
\* raises inside the try.
Terminate ==
    /\ pc = "finally"
    /\ IF spawned
       THEN \E o \in {"ok", "raised"} :
              /\ teardown' = [teardown EXCEPT !.terminate = o]
              /\ pc' = AfterTerminate(o)
       ELSE /\ teardown' = [teardown EXCEPT !.terminate = "unbound"]
            /\ pc' = AfterTerminate("unbound")
    /\ UNCHANGED <<io, spawned, sent, written, inFlight, readLog, response,
                   initResp, listResp, callResp, handled, report, toolName,
                   raised, completed>>
    /\ UNCHANGED <<extractVars, clientVars>>

\* line 152: the subprocess exits within 5 seconds, or wait raises
\* TimeoutExpired, or wait raises something else
Wait ==
    /\ pc = "wait"
    /\ \E o \in {"exited", "timeout", "raised"} :
         /\ teardown' = [teardown EXCEPT !.wait = o]
         /\ pc' = AfterWait(o)
    /\ UNCHANGED <<io, spawned, sent, written, inFlight, readLog, response,
                   initResp, listResp, callResp, handled, report, toolName,
                   raised, completed>>
    /\ UNCHANGED <<extractVars, clientVars>>

\* lines 153-157
Kill ==
    /\ pc = "kill"
    /\ \E o \in (IF spawned THEN {"ok", "raised"} ELSE {"unbound"}) :
         /\ teardown' = [teardown EXCEPT !.kill = o,
                                         !.escaped = KillEscapes(o)]
         /\ pc' = "done"
    /\ UNCHANGED <<io, spawned, sent, written, inFlight, readLog, response,
                   initResp, listResp, callResp, handled, report, toolName,
                   raised, completed>>
    /\ UNCHANGED <<extractVars, clientVars>>

ProbeNext ==
    \/ Spawn
    \/ WriteRequest
    \/ ReadLine
    \/ AfterInitialize
    \/ AfterToolsList
    \/ AfterToolsCall
    \/ Terminate
    \/ Wait
    \/ Kill

\* ------------------------------------------------------------------------
\* extract-mermaid-diagrams.py: text and the regular expression
\* ------------------------------------------------------------------------
\* A text is a sequence of tokens: the three backticks, the word mermaid,
\* the newline, and one ordinary character.
FENCE == "fence"
TAG == "mermaid"
NL == "\n"
CH == "a"

\* the lines a document is made of: empty, text, the opening fence of a
\* mermaid block, a bare fence, the opening fence of a block of another kind
EmptyLine == <<>>
TextLine == <<CH>>
OpenLine == <<FENCE, TAG>>
CloseLine == <<FENCE>>
OtherOpenLine == <<FENCE, CH>>
LineKinds == {EmptyLine, TextLine, OpenLine, CloseLine, OtherOpenLine}

RECURSIVE Join(_)
\* the lines joined by newlines
Join(lines) ==
    IF lines = <<>> THEN <<>>
    ELSE IF Len(lines) = 1 THEN lines[1]
    ELSE lines[1] \o <<NL>> \o Join(Tail(lines))

\* f.read(): the content of the input file
ReadFile(lines, trailing) ==
    IF lines = <<>> THEN <<>>
    ELSE Join(lines) \o (IF trailing THEN <<NL>> ELSE <<>>)

\* mermaid_pattern: the opening fence, the tag and a newline precede the
\* group; a newline and a fence follow it
OpenPat == <<FENCE, TAG, NL>>
ClosePat == <<NL, FENCE>>

\* pat occurs in text at position p
MatchesAt(text, p, pat) ==
    /\ p >= 1
    /\ p + Len(pat) - 1 <= Len(text)
    /\ \A i \in 1..Len(pat) : text[p + i - 1] = pat[i]

\* the leftmost occurrence of pat in text at or after position p, 0 if none
FindFrom(text, p, pat) ==
    LET hits == { q \in p..Len(text) : MatchesAt(text, q, pat) }
    IN  IF hits = {} THEN 0
        ELSE CHOOSE q \in hits : \A r \in hits : q <= r

\* where the lazy group (.*?) with DOTALL ends for a match opened at o: just
\* before the first newline-fence at or after the end of the opening; 0 if
\* the match fails
GroupEnd(text, o) ==
    FindFrom(text, o + Len(OpenPat), ClosePat)

RECURSIVE FindAll(_, _)
\* re.findall(mermaid_pattern, content, re.DOTALL) scanning from position p:
\* the groups of the non-overlapping matches, left to right
FindAll(text, p) ==
    LET o == FindFrom(text, p, OpenPat)
    IN  IF o = 0 THEN <<>>
        ELSE LET c == GroupEnd(text, o)
             IN  IF c = 0 THEN <<>>
                 ELSE <<SubSeq(text, o + Len(OpenPat), c - 1)>>
                      \o FindAll(text, c + Len(ClosePat))

\* the input paths of the model: [stem, ext], the directory part dropped by
\* os.path.basename
InputPaths == { [stem |-> "design", ext |-> ".md"],
                [stem |-> "notes", ext |-> ".markdown"] }

\* os.path.splitext(os.path.basename(input_file))[0]
BaseName(path) ==
    path.stem

DefaultOutDir == "docs/assets/diagrams/mermaid"

\* sys.argv[2] if len(sys.argv) > 2 else the default
OutputDir(args) ==
    IF Len(args) > 1 THEN args[2].dir ELSE DefaultOutDir

\* f"{base_name}-diagram-{i}.mmd" in output_dir
OutputFile(dir, base, i) ==
    [dir |-> dir, base |-> base, idx |-> i, ext |-> ".mmd"]

\* the command lines main can be given
ArgLists ==
    {<<>>}
    \cup { <<p>> : p \in InputPaths }
    \cup { <<p, [dir |-> "out"]>> : p \in InputPaths }

RECURSIVE SeqsUpTo(_, _)
\* the sequences over S of length at most n
SeqsUpTo(S, n) ==
    IF n = 0 THEN {<<>>}
    ELSE LET shorter == SeqsUpTo(S, n - 1)
         IN  shorter \cup { Append(q, x) : q \in shorter, x \in S }

ExtractInit ==
    /\ xpc = "main"
    /\ argv \in ArgLists
    /\ inputKind \in {"absent", "file", "dir"}
    /\ docLines \in SeqsUpTo(LineKinds, MaxLines)
    /\ trailingNL \in BOOLEAN
    /\ inputKind # "file" => docLines = <<>> /\ trailingNL = FALSE
    /\ argv = <<>> => inputKind = "absent"
    /\ docLines = <<>> => trailingNL = FALSE
    /\ outDirMade = FALSE
    /\ diagrams = <<>>
    /\ diagramFiles = <<>>
    /\ outFiles = {}
    /\ exitCode = -1
    /\ printed = "none"

ExtractIdle ==
    /\ xpc = "off"
    /\ argv = <<>>
    /\ inputKind = "absent"
    /\ docLines = <<>>
    /\ trailingNL = FALSE
    /\ outDirMade = FALSE
    /\ diagrams = <<>>
    /\ diagramFiles = <<>>
    /\ outFiles = {}
    /\ exitCode = -1
    /\ printed = "none"

Exists_Unchecked(kind) ==
    TRUE

\* os.path.exists(input_file)
Exists(kind) ==
    kind # "absent"

\* main, lines 37-46: the argument count and the existence check
Main ==
    /\ xpc = "main"
    /\ IF Len(argv) < 1
       THEN /\ printed' = "usage"
            /\ exitCode' = 1
            /\ xpc' = "exit"
       ELSE IF ~Exists(inputKind)
       THEN /\ printed' = "error"
            /\ exitCode' = 1
            /\ xpc' = "exit"
       ELSE /\ xpc' = "extract"
            /\ UNCHANGED <<printed, exitCode>>
    /\ UNCHANGED <<argv, inputKind, docLines, trailingNL, outDirMade,
                   diagrams, diagramFiles, outFiles>>
    /\ UNCHANGED <<probeVars, clientVars>>

\* extract_mermaid_diagrams, lines 13-25: makedirs, read, findall.  open()
\* of a directory raises, the exception is not caught and the interpreter
\* exits with status 1.
ExtractScan ==
    /\ xpc = "extract"
    /\ outDirMade' = TRUE
    /\ IF inputKind = "file"
       THEN /\ diagrams' = FindAll(ReadFile(docLines, trailingNL), 1)
            /\ xpc' = "write"
            /\ UNCHANGED <<exitCode, printed>>
       ELSE /\ exitCode' = 1
            /\ printed' = "traceback"
            /\ xpc' = "exit"
            /\ UNCHANGED diagrams
    /\ UNCHANGED <<argv, inputKind, docLines, trailingNL, diagramFiles,
                   outFiles>>
    /\ UNCHANGED <<probeVars, clientVars>>

\* one turn of the loop of lines 27-32: write diagram i, a file of the same
\* name is overwritten
WriteDiagram ==
    /\ xpc = "write"
    /\ Len(diagramFiles) < Len(diagrams)
    /\ LET i == Len(diagramFiles) + 1
           f == OutputFile(OutputDir(argv), BaseName(argv[1]), i)
       IN  /\ outFiles' = { g \in outFiles : g.name # f }
                          \cup {[name |-> f, content |-> diagrams[i]]}
           /\ diagramFiles' = Append(diagramFiles, f)
    /\ UNCHANGED <<xpc, argv, inputKind, docLines, trailingNL, outDirMade,
                   diagrams, exitCode, printed>>
    /\ UNCHANGED <<probeVars, clientVars>>

\* return of extract_mermaid_diagrams and main, lines 48-55: the summary and
\* the mmdc command lines, then normal exit
Summary ==
    /\ xpc = "write"
    /\ Len(diagramFiles) = Len(diagrams)
    /\ printed' = "summary"
    /\ exitCode' = 0
    /\ xpc' = "exit"
    /\ UNCHANGED <<argv, inputKind, docLines, trailingNL, outDirMade,
                   diagrams, diagramFiles, outFiles>>
    /\ UNCHANGED <<probeVars, clientVars>>

ExtractNext ==
    \/ Main
    \/ ExtractScan
    \/ WriteDiagram
    \/ Summary

\* ------------------------------------------------------------------------
\* qdrant-examples.py: QdrantClient
\* ------------------------------------------------------------------------
\* status codes the service answers with
StatusCodes == {200, 201, 404, 500}

\* Response bodies.  k: "garbage" (response.json() raises), "nonobj" (valid
\* JSON that is no object), "obj".  For an object: status is its "status"
\* member, result the kind of its "result" member, cols the kind of
\* result["collections"].
Body(k, st, res, cols) ==
    [k |-> k, status |-> st, result |-> res, cols |-> cols]

NoBody == Body("none", "absent", "absent", "absent")

Bodies ==
    { Body("garbage", "absent", "absent", "absent"),
      Body("nonobj", "absent", "absent", "absent"),
      Body("obj", "absent", "absent", "absent"),
      Body("obj", "ok", "absent", "absent"),
      Body("obj", "other", "absent", "absent"),
      Body("obj", "ok", "null", "absent"),
      Body("obj", "ok", "list", "absent"),
      Body("obj", "ok", "map", "absent"),
      Body("obj", "ok", "map", "null"),
      Body("obj", "ok", "map", "names"),
      Body("obj", "ok", "map", "noname") }

\* values a call can produce; Exc stands for a raised exception
BoolVal(b) == [t |-> "bool", b |-> b, items |-> <<>>]
ListVal(xs) == [t |-> "list", b |-> FALSE, items |-> xs]
NullVal == [t |-> "none", b |-> FALSE, items |-> <<>>]
DictVal == [t |-> "dict", b |-> FALSE, items |-> <<>>]
Exc == [t |-> "exc", b |-> FALSE, items |-> <<>>]

CollectionNames == <<"c1", "c2">>
Hits == <<"hit1", "hit2">>

Catch_Nothing(r, sentinel) ==
    r

\* `except Exception as e: ... return sentinel` around a try block whose
\* outcome is r
Catch(r, sentinel) ==
    IF r = Exc THEN sentinel ELSE r

\* the try block of health_check, lines 23-24
HealthTry(net, status, body) ==
    IF net = "fail" THEN Exc
    ELSE IF status # 200 THEN BoolVal(FALSE)
    ELSE IF body.k # "obj" THEN Exc
    ELSE BoolVal(body.status = "ok")

health_check(net, status, body) ==
    Catch(HealthTry(net, status, body), BoolVal(FALSE))

\* the try block of create_collection, lines 39-43
CreateTry(net, status, body) ==
    IF net = "fail" THEN Exc
    ELSE BoolVal(status \in {200, 201})

create_collection(net, status, body) ==
    Catch(CreateTry(net, status, body), BoolVal(FALSE))

\* the try block of list_collections, lines 51-54, and the return of line 57
\* reached when the status is not 200
ListTry(net, status, body) ==
    IF net = "fail" THEN Exc
    ELSE IF status # 200 THEN ListVal(<<>>)
    ELSE IF body.k # "obj" THEN Exc
    ELSE IF body.result = "absent" THEN ListVal(<<>>)
    ELSE IF body.result # "map" THEN Exc
    ELSE IF body.cols = "absent" THEN ListVal(<<>>)
    ELSE IF body.cols = "names" THEN ListVal(CollectionNames)
    ELSE Exc

list_collections(net, status, body) ==
    Catch(ListTry(net, status, body), ListVal(<<>>))

\* the try block of upsert_points, lines 64-68
UpsertTry(net, status, body) ==
    IF net = "fail" THEN Exc
    ELSE BoolVal(status = 200)

upsert_points(net, status, body) ==
    Catch(UpsertTry(net, status, body), BoolVal(FALSE))

\* the try block of search_points, lines 85-90, and the return of line 93
SearchTry(net, status, body) ==
    IF net = "fail" THEN Exc
    ELSE IF status # 200 THEN ListVal(<<>>)
    ELSE IF body.k # "obj" THEN Exc
    ELSE IF body.result = "absent" THEN ListVal(<<>>)
    ELSE IF body.result = "null" THEN NullVal
    ELSE IF body.result = "list" THEN ListVal(Hits)
    ELSE DictVal

search_points(net, status, body) ==
    Catch(SearchTry(net, status, body), ListVal(<<>>))

ClientOps == {"health_check", "create_collection", "list_collections",
              "upsert_points", "search_points"}

ClientInit ==
    /\ cOp = "none"
    /\ cNet = "none"
    /\ cStatus = 0
    /\ cBody = NoBody
    /\ cRet = NullVal

\* what the service does with a request: the transport fails, or it answers
\* with a status code and a body
Answers ==
    { [net |-> "fail", status |-> 0, body |-> NoBody] }
    \cup { [net |-> "ok", status |-> st, body |-> b] :
             st \in StatusCodes, b \in Bodies }

HealthCheck ==
    /\ \E a \in Answers :
         /\ cOp' = "health_check"
         /\ cNet' = a.net
         /\ cStatus' = a.status
         /\ cBody' = a.body
         /\ cRet' = health_check(a.net, a.status, a.body)
    /\ UNCHANGED <<probeVars, extractVars>>

CreateCollection ==
    /\ \E a \in Answers :
         /\ cOp' = "create_collection"
         /\ cNet' = a.net
         /\ cStatus' = a.status
         /\ cBody' = a.body
         /\ cRet' = create_collection(a.net, a.status, a.body)
    /\ UNCHANGED <<probeVars, extractVars>>

ListCollections ==
    /\ \E a \in Answers :
         /\ cOp' = "list_collections"
         /\ cNet' = a.net
         /\ cStatus' = a.status
         /\ cBody' = a.body
         /\ cRet' = list_collections(a.net, a.status, a.body)
    /\ UNCHANGED <<probeVars, extractVars>>

UpsertPoints ==
    /\ \E a \in Answers :
         /\ cOp' = "upsert_points"
         /\ cNet' = a.net
         /\ cStatus' = a.status
         /\ cBody' = a.body
         /\ cRet' = upsert_points(a.net, a.status, a.body)
    /\ UNCHANGED <<probeVars, extractVars>>

SearchPoints ==
    /\ \E a \in Answers :
         /\ cOp' = "search_points"
         /\ cNet' = a.net
         /\ cStatus' = a.status
         /\ cBody' = a.body
         /\ cRet' = search_points(a.net, a.status, a.body)
    /\ UNCHANGED <<probeVars, extractVars>>

ClientNext ==
    \/ HealthCheck
    \/ CreateCollection
    \/ ListCollections
    \/ UpsertPoints
    \/ SearchPoints

\* ------------------------------------------------------------------------
\* Specifications
\* ------------------------------------------------------------------------
Init ==
    /\ ProbeInit
    /\ ExtractIdle
    /\ ClientInit

Next ==
    ProbeNext

\* the probe
Spec ==
    Init /\ [][Next]_vars

InitExtractor ==
    /\ ProbeIdle
    /\ ExtractInit
    /\ ClientInit

\* the diagram extractor
SpecExtractor ==
    InitExtractor /\ [][ExtractNext]_vars

InitClient ==
    /\ ProbeIdle
    /\ ExtractIdle
    /\ ClientInit

\* the vector-store client
SpecClient ==
    InitClient /\ [][ClientNext]_vars

\* ------------------------------------------------------------------------
\* Properties of the probe (Spec)
\* ------------------------------------------------------------------------
InTeardown ==
    pc \in {"finally", "wait", "kill", "done"}

\* the value is a JSON-RPC response object with a `result` member
HasResultField(v) ==
    v.t = "obj" /\ v.res # "absent"

Methods == <<"initialize", "tools/list", "tools/call">>

\* C1: once the initialize exchange has returned no response or a response
\* without a `result` member, no tools/list and no tools/call request is ever
\* handed to send_mcp_request or written, the probe is in its finally block,
\* and it finishes only after process.terminate() was requested.
C1_InitFailureAborts ==
    ("init" \in handled /\ ~HasResultField(initResp)) =>
        /\ \A i \in 1..Len(sent) : sent[i].method = "initialize"
        /\ \A i \in 1..Len(written) : written[i].method = "initialize"
        /\ InTeardown
        /\ pc = "done" => teardown.terminate \in {"ok", "raised"}

C1_Witness ==
    /\ pc = "done"
    /\ "init" \in handled
    /\ initResp.t = "obj"
    /\ initResp.res = "absent"
    /\ Len(written) = 1
    /\ teardown.terminate = "ok"

\* C2: after the subprocess is spawned, every way out of the exchange (the
\* completion banner, the early return on initialize failure, an exception)
\* leads into the finally block; when the probe is done, terminate() was
\* requested, wait(timeout=5) was called exactly when terminate() returned,
\* kill() was called exactly when terminate() raised or wait() timed out or
\* raised, and no exception left the finally block.
C2_TeardownAlways ==
    /\ (spawned /\ (completed \/ raised \/ report["init"] = "fail")) => InTeardown
    /\ (spawned /\ pc = "done") =>
        /\ teardown.terminate \in {"ok", "raised"}
        /\ (teardown.wait # "none") <=> (teardown.terminate = "ok")
        /\ (teardown.kill # "none") <=>
               \/ teardown.terminate = "raised"
               \/ teardown.wait \in {"timeout", "raised"}
        /\ ~teardown.escaped

C2_Witness ==
    /\ pc = "done"
    /\ spawned
    /\ raised
    /\ teardown.terminate = "ok"
    /\ teardown.wait = "timeout"
    /\ teardown.kill = "raised"

\* C5: once the tools/call response object has been examined, success is
\* reported exactly when it has a `result` member and failure exactly when
\* it has none.
C5_ResultPresenceDecides ==
    ("call" \in handled /\ IsMapping(callResp)) =>
        /\ report["call"] = "ok" <=> HasResultField(callResp)
        /\ report["call"] = "fail" <=> ~HasResultField(callResp)

\* the tools a tools/list response announces
DiscoveredTools(v) ==
    IF v.t = "obj" /\ v.res = "map" /\ v.hasTools THEN v.tools ELSE <<>>

\* the response is None or an object whose result, if any, is null or a
\* mapping
WellTyped(v) ==
    \/ v.t \in {"none", "falsy"}
    \/ v.t = "obj" /\ v.res # "scalar"

CallSent ==
    \E i \in 1..Len(sent) : sent[i].method = "tools/call"

C7_OneRequestInFlight ==
    /\ Len(written) <= 3
    /\ \A i \in 1..Len(written) :
         /\ written[i].id = i
         /\ written[i].method = Methods[i]
    /\ Cardinality(inFlight) <= 1
    /\ io = "call" => inFlight = {}

C7_Witness ==
    /\ Len(written) = 3
    /\ io = "read"
    /\ inFlight = {3}

LastRead ==
    readLog[Len(readLog)]

\* C8 as stated: after the request was written, send_mcp_request returns
\* only if the last line read is valid JSON; in particular not at end of
\* file.  (A read that raises is left out of the statement.)
C8_NeverReturnsWithoutJson ==
    (io = "ret" /\ readLog # <<>> /\ LastRead.kind # "error") =>
        LastRead.kind = "json"

\* C8 amended: while the stream yields only blank, log or non-JSON lines
\* send_mcp_request does not return; after the request was written it
\* returns only on a valid JSON line, or with None at end of file or when the
\* read raises.
C8_ReturnsOnlyOnJsonOrEof ==
    /\ io = "read" => \A i \in 1..Len(readLog) :
                         readLog[i].kind \in {"blank", "log", "text"}
    /\ (io = "ret" /\ readLog # <<>>) =>
        /\ LastRead.kind \in {"json", "eof", "error"}
        /\ LastRead.kind \in {"eof", "error"} => response = NoneVal

C8_Witness ==
    /\ io = "ret"
    /\ Len(readLog) = 3
    /\ readLog[1].kind = "text"
    /\ readLog[2].kind = "blank"
    /\ LastRead.kind = "eof"
    /\ response = NoneVal

\* C10 amended: when send_mcp_request returns a parsed line, the value is
\* that of the last line read, every line read before it in the exchange was
\* blank, log-prefixed or not JSON, and the value may be any JSON value with
\* any id.
C10_FirstJsonLineReturned ==
    (io = "ret" /\ readLog # <<>> /\ LastRead.kind = "json") =>
        /\ response = LastRead.v
        /\ \A i \in 1..(Len(readLog) - 1) :
             readLog[i].kind \in {"blank", "log", "text"}

\* C10 as stated: the value returned is moreover a JSON object.
C10_FirstJsonObjectReturned ==
    (io = "ret" /\ readLog # <<>> /\ LastRead.kind = "json") =>
        /\ response = LastRead.v
        /\ response.t = "obj"
        /\ \A i \in 1..(Len(readLog) - 1) :
             readLog[i].kind \in {"blank", "log", "text"}

C10_Witness ==
    /\ io = "ret"
    /\ pc = "list"
    /\ Len(readLog) = 3
    /\ readLog[1].kind = "log"
    /\ readLog[2].kind = "text"
    /\ LastRead.kind = "json"
    /\ response.t = "obj"
    /\ response.id = 3

\* ------------------------------------------------------------------------
\* Properties of the diagram extractor (SpecExtractor)
\* ------------------------------------------------------------------------
RECURSIVE WellFormedFrom(_, _)
\* every fence line of the document opens or closes a block, no block holds
\* a fence line, and the document ends outside a block; mode is "out",
\* "mermaid" or "other"
WellFormedFrom(lines, mode) ==
    IF lines = <<>> THEN mode = "out"
    ELSE LET h == Head(lines)
             t == Tail(lines)
         IN  IF mode = "out"
             THEN IF h = OpenLine THEN WellFormedFrom(t, "mermaid")
                  ELSE IF h \in {OtherOpenLine, CloseLine}
                       THEN WellFormedFrom(t, "other")
                  ELSE WellFormedFrom(t, "out")
             ELSE IF h = CloseLine THEN WellFormedFrom(t, "out")
             ELSE IF h \in {OpenLine, OtherOpenLine} THEN FALSE
             ELSE WellFormedFrom(t, mode)

WellFormed(lines) ==
    WellFormedFrom(lines, "out")

RECURSIVE MermaidBlocks(_, _, _)
\* the mermaid blocks of a well-formed document, in document order: for each
\* the lines between its opening fence line and its closing fence line
MermaidBlocks(lines, mode, cur) ==
    IF lines = <<>> THEN <<>>
    ELSE LET h == Head(lines)
             t == Tail(lines)
         IN  IF mode = "out"
             THEN IF h = OpenLine THEN MermaidBlocks(t, "mermaid", <<>>)
                  ELSE IF h \in {OtherOpenLine, CloseLine}
                       THEN MermaidBlocks(t, "other", <<>>)
                  ELSE MermaidBlocks(t, "out", <<>>)
             ELSE IF h = CloseLine
                  THEN (IF mode = "mermaid" THEN <<cur>> ELSE <<>>)
                       \o MermaidBlocks(t, "out", <<>>)
             ELSE MermaidBlocks(t, mode, Append(cur, h))

Blocks ==
    MermaidBlocks(docLines, "out", <<>>)

FileContent(f) ==
    (CHOOSE g \in outFiles : g.name = f).content

\* C3: when the extractor has finished with a well-formed document, it has
\* written as many files as the document has mermaid blocks, and the k-th
\* file is <basename>-diagram-<k>.mmd holding the text between the fence
\* lines of the k-th block.
C3_OneFilePerBlock ==
    (xpc = "exit" /\ exitCode = 0 /\ WellFormed(docLines)) =>
        /\ Len(diagramFiles) = Len(Blocks)
        /\ Cardinality(outFiles) = Len(Blocks)
        /\ \A k \in 1..Len(diagramFiles) :
             /\ diagramFiles[k] =
                    OutputFile(OutputDir(argv), argv[1].stem, k)
             /\ \E g \in outFiles : g.name = diagramFiles[k]
             /\ k <= Len(Blocks) =>
                    FileContent(diagramFiles[k]) = Join(Blocks[k])

\* C9: with an input path that does not exist the output directory is never
\* created and nothing is written, and the program ends with the error
\* message and exit code 1; with an input file that exists it ends with the
\* summary and exit code 0.
C9_MissingInputIsFatal ==
    /\ (Len(argv) >= 1 /\ inputKind = "absent") =>
        /\ ~outDirMade
        /\ outFiles = {}
        /\ diagramFiles = <<>>
        /\ xpc \in {"main", "exit"}
        /\ xpc = "exit" => exitCode = 1 /\ printed = "error"
    /\ (Len(argv) >= 1 /\ inputKind = "file" /\ xpc = "exit") =>
        /\ exitCode = 0
        /\ printed = "summary"

C9_Witness ==
    /\ xpc = "exit"
    /\ Len(argv) = 2
    /\ inputKind = "absent"
    /\ exitCode = 1
    /\ printed = "error"

\* ------------------------------------------------------------------------
\* Properties of the vector-store client (SpecClient)
\* ------------------------------------------------------------------------
\* the documented value of a failed call
Sentinel(op) ==
    IF op \in {"health_check", "create_collection", "upsert_points"}
    THEN BoolVal(FALSE)
    ELSE ListVal(<<>>)

\* the response body is unparseable or is no JSON object
Malformed(body) ==
    body.k \in {"garbage", "nonobj"}

\* the operations that read the response body
BodyReaders == {"health_check", "list_collections", "search_points"}

\* C4 as stated: for each of the five operations a transport failure or a
\* malformed or unparseable response yields the sentinel, and no exception
\* leaves the call.
C4_FailureYieldsSentinel ==
    cOp \in ClientOps =>
        /\ cRet # Exc
        /\ (cNet = "fail" \/ Malformed(cBody)) => cRet = Sentinel(cOp)

\* C4 amended: no exception leaves a call; a transport failure yields the
\* sentinel for each of the five operations; a malformed or unparseable
\* response yields it for the operations that read the body, while
\* create_collection and upsert_points answer by the status code alone.
C4_FailureYieldsSentinelWhenRead ==
    cOp \in ClientOps =>
        /\ cRet # Exc
        /\ cNet = "fail" => cRet = Sentinel(cOp)
        /\ (cOp \in BodyReaders /\ Malformed(cBody)) => cRet = Sentinel(cOp)
        /\ (cOp = "create_collection" /\ cNet = "ok") =>
               cRet = BoolVal(cStatus \in {200, 201})
        /\ (cOp = "upsert_points" /\ cNet = "ok") =>
               cRet = BoolVal(cStatus = 200)

C4_Witness ==
    /\ cOp = "search_points"
    /\ cNet = "ok"
    /\ cStatus = 200
    /\ cBody.k = "nonobj"
    /\ cRet = ListVal(<<>>)

====
